---- MODULE Spec2Model ----
(***************************************************************************)
(* A model of libavfilter/vf_lut3d.c: the 3D LUT loaders (identity, DAT,   *)
(* CUBE, 3DL, M3D), the three interpolation functions with their 8 and 16  *)
(* bit entry points, config_input and filter_frame.                        *)
(*                                                                         *)
(* C `float` values are modelled as IEEE-754 binary32 numbers [m, e] of    *)
(* value m * 2^e, every operation rounded to nearest-even as the hardware  *)
(* does.  Infinities, subnormals and the sign of zero are not modelled;    *)
(* NaN is, because a read past the end of the grid can produce one.        *)
(***************************************************************************)
EXTENDS Integers, Sequences, FiniteSets, TLC

(***************************************************************************)
(* binary32 arithmetic                                                     *)
(***************************************************************************)
Abs(n) == IF n < 0 THEN -n ELSE n

Sgn(n) == IF n < 0 THEN -1 ELSE 1

Min(a, b) == IF a < b THEN a ELSE b

Max(a, b) == IF a < b THEN b ELSE a

\* the number of bits of a natural below 2^4, 2^8, 2^16 and 2^31
Bits4(n) == IF n < 1 THEN 0 ELSE IF n < 2 THEN 1 ELSE IF n < 4 THEN 2 ELSE IF n < 8 THEN 3 ELSE 4

Bits8(n) == IF n < 16 THEN Bits4(n) ELSE 4 + Bits4(n \div 16)

Bits16(n) == IF n < 256 THEN Bits8(n) ELSE 8 + Bits8(n \div 256)

BitLen(n) == IF n < 65536 THEN Bits16(n) ELSE 16 + Bits16(n \div 65536)

NaN == [nan |-> TRUE, m |-> 0, e |-> 0]

F(m, e) == [nan |-> FALSE, m |-> m, e |-> e]

FZero == F(0, 0)

\* q or q + 1, rounding to nearest, ties to even, on the remainder r of a
\* division by 2 * half; the result times 2^e as a binary32 of sign s
RoundUp(s, e, q, r, half) ==
    IF r > half \/ (r = half /\ q % 2 = 1)
    THEN IF q + 1 = 16777216 THEN F(s * 8388608, e + 1) ELSE F(s * (q + 1), e)
    ELSE F(s * q, e)

\* The binary32 nearest (ties to even) to s * M * 2^e, for M of L > 0 bits
RoundBits(s, M, e, L) ==
    IF L = 24 THEN F(s * M, e)
    ELSE IF L < 24 THEN F(s * M * 2^(24 - L), e - (24 - L))
    ELSE RoundUp(s, e + (L - 24), M \div 2^(L - 24), M % 2^(L - 24), 2^(L - 25))

\* The binary32 nearest (ties to even) to s * M * 2^e, M a natural below 2^31
\* whose lowest bit may stand for discarded lower bits (a sticky bit).
FRound(s, M, e) == IF M = 0 THEN FZero ELSE RoundBits(s, M, e, BitLen(M))

\* (float) n for an int n
FInt(n) == FRound(Sgn(n), Abs(n), 0)

\* q with the discarded bits r or-ed into its lowest bit
StickyBit(q, r) == IF r # 0 /\ q % 2 = 0 THEN q + 1 ELSE q

\* n right-shifted by d with the discarded bits or-ed into the lowest bit
ShiftSticky(n, d) ==
    IF d = 0 THEN n
    ELSE IF d >= 30 THEN (IF n = 0 THEN 0 ELSE 1)
    ELSE StickyBit(n \div 2^d, n % 2^d)

\* the binary32 nearest to S * 2^e for an integer S
SumRound(S, e) == FRound(Sgn(S), Abs(S), e)

\* hi + lo for hi.e >= lo.e: the significands with three guard bits, lo
\* aligned to hi
AddAligned(hi, lo) ==
    SumRound(hi.m * 8 + Sgn(lo.m) * ShiftSticky(Abs(lo.m) * 8, hi.e - lo.e), hi.e - 3)

FAdd(a, b) ==
    IF a.nan \/ b.nan THEN NaN
    ELSE IF a.m = 0 THEN b
    ELSE IF b.m = 0 THEN a
    ELSE IF a.e >= b.e THEN AddAligned(a, b)
    ELSE AddAligned(b, a)

FNeg(a) == IF a.nan THEN NaN ELSE F(-a.m, a.e)

FSub(a, b) == FAdd(a, FNeg(b))

\* the top 30 bits of the 48-bit product hi * 2^24 + low, with a sticky bit
MulParts(hi, low) == StickyBit(hi * 64 + low \div 262144, low % 262144)

MulLow(hi, low) == MulParts(hi + low \div 16777216, low % 16777216)

\* the product from its partial products hh * 2^24 + mid * 2^12 + ll
MulMid(hh, mid, ll) == MulLow(hh + mid \div 4096, (mid % 4096) * 4096 + ll)

\* the product of the 24-bit x1 * 2^12 + x0 and y1 * 2^12 + y0
MulLimbs(x1, x0, y1, y0) == MulMid(x1 * y1, x1 * y0 + x0 * y1, x0 * y0)

\* A product by a power of two is exact; otherwise the 48-bit product of the two
\* 24-bit significands is formed from 12-bit halves.
FMul(a, b) ==
    IF a.nan \/ b.nan THEN NaN
    ELSE IF a.m = 0 \/ b.m = 0 THEN FZero
    ELSE IF Abs(b.m) = 8388608 THEN F(Sgn(b.m) * a.m, a.e + b.e + 23)
    ELSE IF Abs(a.m) = 8388608 THEN F(Sgn(a.m) * b.m, a.e + b.e + 23)
    ELSE FRound(Sgn(a.m) * Sgn(b.m),
                MulLimbs(Abs(a.m) \div 4096, Abs(a.m) % 4096,
                         Abs(b.m) \div 4096, Abs(b.m) % 4096),
                a.e + b.e + 18)

\* a > b, false when either is a NaN, as in C
FGt(a, b) ==
    IF a.nan \/ b.nan THEN FALSE
    ELSE FSub(a, b).m > 0

\* (int) x: truncation toward zero.  The conversion of a value outside the range
\* of int is undefined; it is modelled as the result x86 gives, INT_MIN.
INT_MIN == -2147483647 - 1

FTrunc(a) ==
    IF a.nan \/ a.e >= 8 THEN INT_MIN
    ELSE IF a.m = 0 THEN 0
    ELSE IF a.e >= 0 THEN a.m * 2^a.e
    ELSE IF -a.e >= 30 THEN 0
    ELSE Sgn(a.m) * (Abs(a.m) \div 2^(-a.e))

\* (int)(x + .5): the sum is formed in double precision and is exact
FNearInt(a) ==
    IF a.nan \/ a.e >= 8 THEN INT_MIN
    ELSE IF a.m = 0 THEN 0
    ELSE IF a.e >= 0 THEN a.m * 2^a.e
    ELSE IF -a.e >= 30 THEN 0
    ELSE LET k == -a.e
             n == a.m + 2^(k - 1)
         IN  Sgn(n) * (Abs(n) \div 2^k)

\* The binary32 nearest to n / d, for naturals n and d > 0.  The C code forms
\* such constants in double precision and then narrows them; for the small
\* operands used here the two roundings give the correctly rounded quotient.
\* Long division in base 32: q the quotient so far, r < d <= 65535 the
\* remainder, e the exponent of the last digit of q.
DivBits[q \in Nat, r \in Nat, d \in Nat, e \in Int] ==
    IF q >= 33554432 THEN FRound(1, StickyBit(q, r), e)
    ELSE DivBits[32 * q + (32 * r) \div d, (32 * r) % d, d, e - 5]

FDivInt(n, d) ==
    IF n = 0 THEN FZero
    ELSE IF n < 0 THEN FNeg(DivBits[(-n) \div d, (-n) % d, d, 0])
    ELSE DivBits[n \div d, n % d, d, 0]

\* The bit pattern of a nonzero normal binary32, read as a C int
FBits(a) ==
    IF a.m = 0 THEN 0
    ELSE LET mag == (a.e + 150) * 8388608 + (Abs(a.m) - 8388608)
         IN  IF a.m < 0 THEN mag - 1073741824 - 1073741824 ELSE mag

(***************************************************************************)
(* Program constants                                                       *)
(***************************************************************************)
MAX_LEVEL == 36

INTERPOLATE_NEAREST == 0

INTERPOLATE_TRILINEAR == 1

INTERPOLATE_TETRAHEDRAL == 2

\* AVERROR_INVALIDDATA is -MKTAG('I','N','D','A')
AVERROR_INVALIDDATA == -1094995529

\* AVERROR(EINVAL)
AVERROR_EINVAL == -22

\* AVERROR(errno) of a failed fopen (ENOENT)
AVERROR_ENOENT == -2

DAT_SIZE == 33

TDL_SIZE == 17

IDENTITY_SIZE == 32

\* struct rgbvec
Vec(r, g, b) == [r |-> r, g |-> g, b |-> b]

VecZero == Vec(FZero, FZero, FZero)

(***************************************************************************)
(* Text lines.  A line is a record: its kind t and, for the kinds that     *)
(* carry numbers, the tokens.  A number token holds the value strtof reads *)
(* from it (f) and whether it is written as a plain decimal integer (int). *)
(***************************************************************************)
Tok(f, int) == [f |-> f, int |-> int]

LBlank == [t |-> "blank"]

LComment == [t |-> "comment"]

LText == [t |-> "text"]

LNums(toks) == [t |-> "nums", toks |-> toks]

LSize(n) == [t |-> "LUT_3D_SIZE", n |-> n]

LDomain(which, toks) == [t |-> which, toks |-> toks]

LIn(n) == [t |-> "in", n |-> n]

LOut(n) == [t |-> "out", n |-> n]

LValues(cs) == [t |-> "values", cs |-> cs]

\* skip_line: nothing but white space, or a '#' after it
skip_line(line) == line.t \in {"blank", "comment"}

\* what sscanf(line, "%f %f %f", ...) stores, in order: the leading number tokens
ScanF(line) ==
    IF line.t = "nums"
    THEN [n \in 1..Min(3, Len(line.toks)) |-> line.toks[n].f]
    ELSE << >>

\* what sscanf(line, "%d %d %d", ...) stores: %d reads the integer part of a
\* token and the conversion after a token that is not an integer fails
RECURSIVE ScanDFrom(_, _)
ScanDFrom(toks, n) ==
    IF n > Len(toks) \/ n > 3 THEN << >>
    ELSE IF toks[n].int THEN <<FTrunc(toks[n].f)>> \o ScanDFrom(toks, n + 1)
    ELSE <<FTrunc(toks[n].f)>>

ScanD(line) == IF line.t = "nums" THEN ScanDFrom(line.toks, 1) ELSE << >>

(***************************************************************************)
(* The stream: a sequence of runs, each a line repeated n times.           *)
(***************************************************************************)
Run(line, n) == [line |-> line, n |-> n]

AtEOF(s) == Len(s) = 0

\* the line fgets returns, and the stream after it
FLine(s) == s[1].line

FRest(s) == IF s[1].n > 1 THEN <<Run(s[1].line, s[1].n - 1)>> \o Tail(s) ELSE Tail(s)
(***************************************************************************)
(* State                                                                   *)
(***************************************************************************)
VARIABLES
    file,           \* the `file` option: NULL, or the named file's extension and lines
    interpolation,  \* the `interp` option
    f,              \* the opened stream: the lines not yet read
    pc,             \* "new", a loader position, "ready", "failed" or "crashed"
    ret,            \* what init returned
    msg,            \* the last av_log error message
    lut,            \* LUT3DContext.lut: the cells written, in the order written
    lutsize,        \* LUT3DContext.lutsize
    size,           \* the loader's local `size`
    cell,           \* the loader's loop counters <<k, j, i>>
    vmin,           \* parse_cube: min[3]
    vmax,           \* parse_cube: max[3]
    in_,            \* parse_m3d: in
    out_,           \* parse_m3d: out
    rgb_map,        \* parse_m3d: rgb_map[3]
    is16bit,        \* LUT3DContext.is16bit
    step,           \* LUT3DContext.step
    rgba_map,       \* LUT3DContext.rgba_map
    interp_8,       \* LUT3DContext.interp_8: NULL or the function set
    interp_16,      \* LUT3DContext.interp_16
    format,         \* inlink->format, "NONE" before config_input
    nconfig,        \* config_input calls made
    nframes,        \* filter_frame calls made
    frame,          \* the last filter_frame call: its input, output and trace
    hist            \* history of the load: what the claims speak about

vars == <<file, interpolation, f, pc, ret, msg, lut, lutsize, size, cell, vmin, vmax,
          in_, out_, rgb_map, is16bit, step, rgba_map, interp_8, interp_16, format,
          nconfig, nframes, frame, hist>>

loadVars == <<f, ret, msg, lut, lutsize, size, cell, vmin, vmax, in_, out_, rgb_map, hist>>

linkVars == <<is16bit, step, rgba_map, interp_8, interp_16, format, nconfig>>

(***************************************************************************)
(* The grid.  lut3d->lut is kept as the sequence of cell writes the loader *)
(* made, in the order k, j, i of its loops, run-length encoded: a segment  *)
(* stands for n consecutive cells.  A "const" segment holds the value v of *)
(* each of its cells and asg, the number of struct members the write       *)
(* assigned; an "ident" segment holds set_identity_matrix's factor c.      *)
(* Memory never written holds 0.0: the filter's context is allocated       *)
(* zeroed.                                                                 *)
(***************************************************************************)
Seg(n, v, asg) == [t |-> "const", n |-> n, v |-> v, asg |-> asg]

RECURSIVE LutLen(_)
LutLen(l) == IF l = << >> THEN 0 ELSE l[1].n + LutLen(Tail(l))

\* the log after one more cell write
LutPut(l, v, asg) ==
    IF l # << >> /\ l[Len(l)].t = "const" /\ l[Len(l)].v = v /\ l[Len(l)].asg = asg
    THEN [l EXCEPT ![Len(l)].n = @ + 1]
    ELSE Append(l, Seg(1, v, asg))

RECURSIVE SegAt(_, _)
SegAt(l, w) == IF w < l[1].n THEN <<l[1], w>> ELSE SegAt(Tail(l), w - l[1].n)

\* the content of the w-th cell written with loop bound sz, a cell of segment seg
CellIn(seg, w, sz) ==
    IF seg.t = "const" THEN seg.v
    ELSE Vec(FMul(FInt(w \div (sz * sz)), seg.c), FMul(FInt((w \div sz) % sz), seg.c),
             FMul(FInt(w % sz), seg.c))

CellOf(l, w, sz) == CellIn(SegAt(l, w)[1], w, sz)

Garbage == {FZero, F(8388608, -23), NaN}

\* the cell the loader wrote as lut[kk][jj][ii]; memory it did not write is 0
ReadCell(l, sz, kk, jj, ii) ==
    IF kk < sz /\ jj < sz /\ ii < sz /\ (kk * sz + jj) * sz + ii < LutLen(l)
    THEN CellOf(l, (kk * sz + jj) * sz + ii, sz)
    ELSE VecZero

\* the cell addr cells from the start of the array
ReadAt(l, sz, addr, g) ==
    IF addr >= MAX_LEVEL * MAX_LEVEL * MAX_LEVEL THEN Vec(g, g, g)
    ELSE ReadCell(l, sz, addr \div (MAX_LEVEL * MAX_LEVEL), (addr \div MAX_LEVEL) % MAX_LEVEL,
                  addr % MAX_LEVEL)

\* lut3d->lut[a][b][c] as the compiled code reads it: the address is
\* (a * MAX_LEVEL + b) * MAX_LEVEL + c cells from the start of the array.  A
\* read outside the array is undefined behaviour: it yields some value g.
LutRead(l, sz, a, b, c, g) ==
    IF a < 0 \/ a > MAX_LEVEL \/ b < 0 \/ b > MAX_LEVEL \/ c < 0 \/ c > MAX_LEVEL
    THEN Vec(g, g, g)
    ELSE ReadAt(l, sz, (a * MAX_LEVEL + b) * MAX_LEVEL + c, g)
(***************************************************************************)
(* Inputs: the files init may be given                                     *)
(***************************************************************************)
T0 == Tok(FZero, TRUE)

T1 == Tok(FInt(1), TRUE)

T2 == Tok(FInt(2), TRUE)

THalf == Tok(F(8388608, -24), FALSE)

T2048 == Tok(FInt(2048), TRUE)

DataA == LNums(<<T1, THalf, T0>>)

DataB == LNums(<<T0, T2, T1>>)

DataI == LNums(<<T2048, T0, T1>>)

Partial == LNums(<<T1>>)

Cube(n) == n * n * n

File(ext, lines) == [null |-> FALSE, ext |-> ext, exists |-> TRUE, lines |-> lines]

\* lut3d->file == NULL
NullFile == [null |-> TRUE, ext |-> "", exists |-> FALSE, lines |-> << >>]

DatFiles ==
    { File("dat", pre \o <<Run(DataA, n)>>) :
        pre \in { << >>, <<Run(LText, 1)>> },
        n \in { Cube(DAT_SIZE) - 1 } }
    \cup { File("DAT", <<Run(LBlank, 2), Run(LComment, 1), Run(Partial, 1), Run(DataB, 2)>>) }

TdlFiles ==
    { File("3dl", <<Run(LText, 1), Run(LComment, 1), Run(DataI, Cube(TDL_SIZE))>>),
      File("3dl", <<Run(LText, 1), Run(DataI, Cube(TDL_SIZE) - 1)>>),
      File("3dl", <<Run(LText, 1), Run(DataI, 2), Run(LNums(<<T1, THalf, T0>>), 1)>>),
      File("3dl", <<Run(LText, 1), Run(LText, 1)>>),
      File("3dl", << >>) }

DomMin == LDomain("DOMAIN_MIN", <<T0, T0, T0>>)

DomMax == LDomain("DOMAIN_MAX", <<T2, T1, T2>>)

CubeFiles ==
    { File("cube", pre \o <<Run(LSize(n), 1)>> \o mid \o <<Run(DataA, c), Run(DataB, c)>>) :
        pre \in { << >>, <<Run(LComment, 1), Run(DomMax, 1)>> },
        mid \in { << >>, <<Run(DomMin, 1), Run(DomMax, 1)>>, <<Run(LBlank, 1)>>,
                  <<Run(LDomain("DOMAIN_OTHER", << >>), 1)>>, <<Run(LText, 1)>> },
        n \in { 2 }, c \in { 3, 4 } }
    \cup { File("cube", <<Run(LSize(n), 1), Run(DataA, c)>>) :
             n \in { -1, 0, 1, MAX_LEVEL + 4 }, c \in { 1 } }
    \cup { File("cube", <<Run(LSize(MAX_LEVEL), 1), Run(DataA, Cube(MAX_LEVEL))>>),
           File("cube", <<Run(LComment, 1), Run(DataA, 1)>>) }

M3dFiles ==
    { File("m3d", <<Run(LComment, 1)>> \o hdr \o <<Run(DataA, 4), Run(DataB, c)>>) :
        hdr \in { <<Run(LIn(8), 1), Run(LOut(256), 1), Run(LValues(<<"r", "g", "b">>), 1)>>,
                  <<Run(LIn(8), 1), Run(LOut(3), 1), Run(LValues(<<"b", "r", "g">>), 1)>>,
                  <<Run(LIn(8), 1), Run(LOut(3), 1), Run(LValues(<<"b", "x", "g">>), 1)>>,
                  <<Run(LIn(8), 1), Run(LOut(256), 1)>>,
                  <<Run(LIn(8), 1), Run(LValues(<<"r", "g", "b">>), 1)>>,
                  <<Run(LOut(256), 1), Run(LValues(<<"r", "g", "b">>), 1)>>,
                  <<Run(LIn(9), 1), Run(LOut(2), 1), Run(LValues(<<"r", "g", "b">>), 1)>> },
        c \in { 3, 4 } }
    \cup { File("m3d", <<Run(LIn(8), 1), Run(LOut(2), 1), Run(LValues(<<"r", "g", "b">>), 1),
                         Run(DataA, 1), Run(l, 1), Run(DataA, 7)>>) :
             l \in { LText, LBlank, Partial } }
    \cup { File("m3d", <<Run(LIn(Cube(MAX_LEVEL + 1)), 1), Run(LOut(2), 1),
                         Run(LValues(<<"r", "g", "b">>), 1), Run(d, Cube(MAX_LEVEL + 1))>>) :
             d \in { DataA } }

Files ==
    DatFiles \cup TdlFiles \cup CubeFiles \cup M3dFiles
    \cup { File("txt", <<Run(DataA, 1)>>), File("", <<Run(DataA, 1)>>),
           [null |-> FALSE, ext |-> "cube", exists |-> FALSE, lines |-> << >>] }

(***************************************************************************)
(* init and the loaders                                                    *)
(***************************************************************************)
Hist0 == [maxW |-> -1, eof |-> FALSE, junk |-> 0, dom |-> 0, badval |-> FALSE,
          values |-> FALSE, nwrite |-> 0]

NoFrame == [w |-> 0]

Init ==
    /\ file \in {NullFile} \cup Files
    /\ interpolation \in {INTERPOLATE_NEAREST, INTERPOLATE_TRILINEAR, INTERPOLATE_TETRAHEDRAL}
    /\ f = << >>
    /\ pc = "new"
    /\ ret = 0
    /\ msg = ""
    /\ lut = << >>
    /\ lutsize = 0
    /\ size = 0
    /\ cell = <<0, 0, 0>>
    /\ vmin = <<FZero, FZero, FZero>>
    /\ vmax = <<FInt(1), FInt(1), FInt(1)>>
    /\ in_ = -1
    /\ out_ = -1
    /\ rgb_map = <<0, 1, 2>>
    /\ is16bit = 0
    /\ step = 0
    /\ rgba_map = <<0, 0, 0, 0>>
    /\ interp_8 = [nbits |-> 0, name |-> "NULL"]
    /\ interp_16 = [nbits |-> 0, name |-> "NULL"]
    /\ format = "NONE"
    /\ nconfig = 0
    /\ nframes = 0
    /\ frame = NoFrame
    /\ hist = Hist0

\* av_strcasecmp(ext, s) == 0, for the extensions the inputs use
ExtIs(ext, s) == ext = s \/ (s = "dat" /\ ext = "DAT")

\* the tail of init: the parser returned r with lut3d->lutsize = ls
InitReturn(r, m, ls) ==
    /\ ret' = IF r = 0 /\ ls = 0 THEN AVERROR_INVALIDDATA ELSE r
    /\ msg' = IF r = 0 /\ ls = 0 THEN "3D LUT is empty" ELSE m
    /\ pc' = IF r = 0 /\ ls # 0 THEN "ready" ELSE "failed"

\* the loop counters after one more cell, or << >> when the loops end
NextCell(c, sz) ==
    IF c[3] + 1 < sz THEN <<c[1], c[2], c[3] + 1>>
    ELSE IF c[2] + 1 < sz THEN <<c[1], c[2] + 1, 0>>
    ELSE IF c[1] + 1 < sz THEN <<c[1] + 1, 0, 0>>
    ELSE << >>

\* hist after the write of lut[c[1]][c[2]][c[3]] from a line with n numbers
HistWrite(h, c, n) ==
    [h EXCEPT !.maxW = Max(Max(@, c[1]), Max(c[2], c[3])),
              !.junk = IF n < 3 THEN @ + 1 ELSE @,
              !.nwrite = IF n > 0 THEN @ + 1 ELSE @]

\* set_identity_matrix(lut3d, sz)
IdentityLut(sz) == <<[t |-> "ident", n |-> Cube(sz), c |-> FDivInt(1, sz - 1)]>>

\* init up to the call of a parser
InitOpen ==
    /\ pc = "new"
    /\ UNCHANGED <<file, interpolation, linkVars, nframes, frame, cell, vmin, vmax,
                   in_, out_, rgb_map>>
    /\ IF file.null
       THEN /\ lut' = IdentityLut(IDENTITY_SIZE)
            /\ lutsize' = IDENTITY_SIZE
            /\ size' = IDENTITY_SIZE
            /\ hist' = [hist EXCEPT !.maxW = IDENTITY_SIZE - 1, !.nwrite = Cube(IDENTITY_SIZE)]
            /\ ret' = 0
            /\ pc' = "ready"
            /\ UNCHANGED <<f, msg>>
       ELSE IF ~file.exists
       THEN /\ ret' = AVERROR_ENOENT
            /\ msg' = "fopen"
            /\ pc' = "failed"
            /\ UNCHANGED <<f, lut, lutsize, size, hist>>
       ELSE IF file.ext = ""
       THEN /\ ret' = AVERROR_INVALIDDATA
            /\ msg' = "Unable to guess the format from the extension"
            /\ pc' = "failed"
            /\ UNCHANGED <<f, lut, lutsize, size, hist>>
       ELSE IF ExtIs(file.ext, "dat")
       THEN /\ lutsize' = DAT_SIZE
            /\ size' = DAT_SIZE
            /\ pc' = "parse_dat"
            /\ f' = file.lines
            /\ UNCHANGED <<ret, msg, lut, hist>>
       ELSE IF ExtIs(file.ext, "3dl")
       THEN /\ lutsize' = TDL_SIZE
            /\ size' = TDL_SIZE
            /\ pc' = "parse_3dl_header"
            /\ f' = file.lines
            /\ UNCHANGED <<ret, msg, lut, hist>>
       ELSE IF ExtIs(file.ext, "cube")
       THEN /\ pc' = "parse_cube_scan"
            /\ f' = file.lines
            /\ UNCHANGED <<ret, msg, lut, lutsize, size, hist>>
       ELSE IF ExtIs(file.ext, "m3d")
       THEN /\ pc' = "parse_m3d_scan"
            /\ f' = file.lines
            /\ UNCHANGED <<ret, msg, lut, lutsize, size, hist>>
       ELSE /\ ret' = AVERROR_EINVAL
            /\ msg' = "Unrecognized file type"
            /\ pc' = "failed"
            /\ UNCHANGED <<f, lut, lutsize, size, hist>>

\* NEXT_LINE without its return at end of file: the parser's loops end as if
\* the last cell had been read
NextLineNoReturn ==
    /\ hist' = [hist EXCEPT !.eof = TRUE]
    /\ InitReturn(0, msg, lutsize)
    /\ UNCHANGED <<f, lut, lutsize, size, cell, vmin, vmax, in_, out_, rgb_map>>

\* NEXT_LINE at end of file: the parser returns AVERROR_INVALIDDATA
NextLineEOF ==
    /\ hist' = [hist EXCEPT !.eof = TRUE]
    /\ InitReturn(AVERROR_INVALIDDATA, "Unexpected EOF", lutsize)
    /\ UNCHANGED <<f, lut, lutsize, size, cell, vmin, vmax, in_, out_, rgb_map>>

\* the members of *vec after sscanf stored the values got, in the order r, g, b
Stored(old, got) ==
    Vec(IF Len(got) >= 1 THEN got[1] ELSE old.r,
        IF Len(got) >= 2 THEN got[2] ELSE old.g,
        IF Len(got) >= 3 THEN got[3] ELSE old.b)

\* parse_dat: one fgets of its loop body
ParseDatLine ==
    /\ pc = "parse_dat"
    /\ UNCHANGED <<file, interpolation, linkVars, nframes, frame>>
    /\ IF AtEOF(f) THEN NextLineEOF
       ELSE LET line == FLine(f) IN
            /\ f' = FRest(f)
            /\ UNCHANGED <<lutsize, size, vmin, vmax, in_, out_, rgb_map>>
            /\ IF skip_line(line)
               THEN UNCHANGED <<lut, cell, hist, ret, msg, pc>>
               ELSE LET got == ScanF(line)
                        nc  == NextCell(cell, size)
                    IN  /\ lut' = LutPut(lut, Stored(VecZero, got), Len(got))
                        /\ hist' = HistWrite(hist, cell, Len(got))
                        /\ IF nc = << >>
                           THEN InitReturn(0, msg, lutsize) /\ UNCHANGED cell
                           ELSE cell' = nc /\ UNCHANGED <<ret, msg, pc>>
\* parse_3dl: the header line
Parse3dlHeader ==
    /\ pc = "parse_3dl_header"
    /\ UNCHANGED <<file, interpolation, linkVars, nframes, frame>>
    /\ UNCHANGED <<lut, lutsize, size, cell, vmin, vmax, in_, out_, rgb_map>>
    /\ IF AtEOF(f)
       THEN /\ hist' = [hist EXCEPT !.eof = TRUE]
            /\ InitReturn(AVERROR_INVALIDDATA, msg, lutsize)
            /\ UNCHANGED f
       ELSE /\ f' = FRest(f)
            /\ pc' = "parse_3dl"
            /\ UNCHANGED <<ret, msg, hist>>

\* r / scale with scale = 16*16*16: an exact division by a power of two
Div4096(n) == LET x == FInt(n) IN IF x.m = 0 THEN x ELSE F(x.m, x.e - 12)

\* parse_3dl: one fgets of its loop body
Parse3dlLine ==
    /\ pc = "parse_3dl"
    /\ UNCHANGED <<file, interpolation, linkVars, nframes, frame>>
    /\ IF AtEOF(f) THEN NextLineEOF
       ELSE LET line == FLine(f) IN
            /\ f' = FRest(f)
            /\ UNCHANGED <<lutsize, size, vmin, vmax, in_, out_, rgb_map>>
            /\ IF skip_line(line)
               THEN UNCHANGED <<lut, cell, hist, ret, msg, pc>>
               ELSE LET got == ScanD(line)
                        nc  == NextCell(cell, size)
                    IN  IF Len(got) # 3
                        THEN /\ InitReturn(AVERROR_INVALIDDATA, msg, lutsize)
                             /\ UNCHANGED <<lut, cell, hist>>
                        ELSE /\ lut' = LutPut(lut, Vec(Div4096(got[1]), Div4096(got[2]),
                                                       Div4096(got[3])), 3)
                             /\ hist' = HistWrite(hist, cell, 3)
                             /\ IF nc = << >>
                                THEN InitReturn(0, msg, lutsize) /\ UNCHANGED cell
                                ELSE cell' = nc /\ UNCHANGED <<ret, msg, pc>>

\* parse_cube: one fgets of the outer while loop, which looks for LUT_3D_SIZE
ParseCubeScan ==
    /\ pc = "parse_cube_scan"
    /\ UNCHANGED <<file, interpolation, linkVars, nframes, frame>>
    /\ UNCHANGED <<lut, cell, vmin, vmax, in_, out_, rgb_map>>
    /\ IF AtEOF(f)
       THEN /\ hist' = [hist EXCEPT !.eof = TRUE]
            /\ InitReturn(0, msg, lutsize)
            /\ UNCHANGED <<f, lutsize, size>>
       ELSE LET line == FLine(f) IN
            /\ f' = FRest(f)
            /\ UNCHANGED hist
            /\ IF line.t # "LUT_3D_SIZE"
               THEN UNCHANGED <<lutsize, size, ret, msg, pc>>
               ELSE IF line.n > MAX_LEVEL
               THEN /\ InitReturn(AVERROR_EINVAL, "Too large 3D LUT", lutsize)
                    /\ UNCHANGED <<lutsize, size>>
               ELSE /\ lutsize' = line.n
                    /\ size' = line.n
                    /\ IF line.n > 0
                       THEN pc' = "parse_cube" /\ UNCHANGED <<ret, msg>>
                       ELSE InitReturn(0, msg, line.n)

\* vals[0..2] after sscanf(line + 11, "%f %f %f", vals, vals + 1, vals + 2)
ScanInto(vals, toks) == [n \in 1..3 |-> IF n <= Len(toks) THEN toks[n].f ELSE vals[n]]

\* parse_cube: one fgets of the do-while loop that reads a cell.  After a
\* DOMAIN_ line `continue` jumps to the loop condition skip_line(line), which is
\* false for that line, so the line goes on to the sscanf of the colour triple.
ParseCubeLine ==
    /\ pc = "parse_cube"
    /\ UNCHANGED <<file, interpolation, linkVars, nframes, frame>>
    /\ IF AtEOF(f) THEN NextLineEOF
       ELSE LET line  == FLine(f)
                isDom == line.t \in {"DOMAIN_MIN", "DOMAIN_MAX", "DOMAIN_OTHER"}
                min1  == IF line.t = "DOMAIN_MIN" THEN ScanInto(vmin, line.toks) ELSE vmin
                max1  == IF line.t = "DOMAIN_MAX" THEN ScanInto(vmax, line.toks) ELSE vmax
                got   == ScanF(line)
                nc    == NextCell(cell, size)
            IN
            /\ f' = FRest(f)
            /\ UNCHANGED <<lutsize, size, in_, out_, rgb_map>>
            /\ IF line.t = "DOMAIN_OTHER"
               THEN /\ InitReturn(AVERROR_INVALIDDATA, msg, lutsize)
                    /\ UNCHANGED <<lut, cell, hist, vmin, vmax>>
               ELSE /\ vmin' = min1
                    /\ vmax' = max1
                    /\ IF skip_line(line)
                       THEN UNCHANGED <<lut, cell, hist, ret, msg, pc>>
                       ELSE IF Len(got) # 3
                       THEN /\ InitReturn(AVERROR_INVALIDDATA, msg, lutsize)
                            /\ hist' = [hist EXCEPT !.dom = IF isDom THEN @ + 1 ELSE @]
                            /\ UNCHANGED <<lut, cell>>
                       ELSE /\ lut' = LutPut(lut, Vec(FMul(got[1], FSub(max1[1], min1[1])),
                                                      FMul(got[2], FSub(max1[2], min1[2])),
                                                      FMul(got[3], FSub(max1[3], min1[3]))), 3)
                            /\ hist' = HistWrite(hist, cell, 3)
                            /\ IF nc = << >>
                               THEN InitReturn(0, msg, lutsize) /\ UNCHANGED cell
                               ELSE cell' = nc /\ UNCHANGED <<ret, msg, pc>>
\* for (size = 1; size*size*size < in; size++);
RECURSIVE M3dSizeFrom(_, _)
M3dSizeFrom(sz, in) == IF Cube(sz) < in THEN M3dSizeFrom(sz + 1, in) ELSE sz

M3dSize(in) == M3dSizeFrom(1, in)

\* rgb_map after SET_COLOR(0), SET_COLOR(1), SET_COLOR(2) on the words cs
SetColors(map, cs) ==
    [id \in 1..3 |->
        IF id > Len(cs) THEN map[id]
        ELSE IF cs[id] = "r" THEN 0
        ELSE IF cs[id] = "g" THEN 1
        ELSE IF cs[id] = "b" THEN 2
        ELSE map[id]]

\* parse_m3d: one fgets of the while loop that reads the directives and, when
\* the loop ends (at a `values` line or at the end of the file), the code up to
\* the loops that read the cells
ParseM3dScan ==
    /\ pc = "parse_m3d_scan"
    /\ UNCHANGED <<file, interpolation, linkVars, nframes, frame>>
    /\ UNCHANGED <<lut, cell, vmin, vmax>>
    /\ LET eof  == AtEOF(f)
           line == IF eof THEN LBlank ELSE FLine(f)
           in1  == IF line.t = "in" THEN line.n ELSE in_
           out1 == IF line.t = "out" THEN line.n ELSE out_
           map1 == IF line.t = "values" THEN SetColors(rgb_map, line.cs) ELSE rgb_map
       IN
       /\ f' = IF eof THEN f ELSE FRest(f)
       /\ in_' = in1
       /\ out_' = out1
       /\ rgb_map' = map1
       /\ hist' = [hist EXCEPT !.eof = @ \/ eof,
                               !.values = @ \/ line.t = "values",
                               !.badval = @ \/ (line.t = "values" /\
                                   \E id \in 1..Len(line.cs) :
                                       line.cs[id] \notin {"r", "g", "b"})]
       /\ IF ~eof /\ line.t # "values"
          THEN UNCHANGED <<lutsize, size, ret, msg, pc>>
          ELSE IF in1 = -1 \/ out1 = -1
          THEN /\ InitReturn(AVERROR_INVALIDDATA, "in and out must be defined", lutsize)
               /\ UNCHANGED <<lutsize, size>>
          ELSE /\ size' = M3dSize(in1)
               /\ lutsize' = M3dSize(in1)
               /\ pc' = "parse_m3d"
               /\ UNCHANGED <<ret, msg>>

\* scale = 1. / (out - 1); out > 1 in every input
M3dScale(out) == FDivInt(1, out - 1)

\* the cell offset of lut[k][j][i] from the start of the array
Addr(c) == (c[1] * MAX_LEVEL + c[2]) * MAX_LEVEL + c[3]

LutCells == MAX_LEVEL * MAX_LEVEL * MAX_LEVEL

\* parse_m3d: one fgets of its loop body.  A write past the end of the array is
\* undefined behaviour: the process may die there, or go on; the member `r` of
\* the first cell past the array is where lutsize lies.
ParseM3dLine ==
    /\ pc = "parse_m3d"
    /\ UNCHANGED <<file, interpolation, linkVars, nframes, frame>>
    /\ IF AtEOF(f) THEN NextLineEOF
       ELSE LET line  == FLine(f)
                got   == ScanF(line)
                nc    == NextCell(cell, size)
                scale == M3dScale(out_)
                vec   == Vec(FMul(got[rgb_map[1] + 1], scale),
                             FMul(got[rgb_map[2] + 1], scale),
                             FMul(got[rgb_map[3] + 1], scale))
                ls    == IF Addr(cell) = LutCells THEN FBits(vec.r) ELSE lutsize
            IN
            /\ UNCHANGED <<size, vmin, vmax, in_, out_, rgb_map>>
            /\ IF Len(got) # 3
               THEN /\ f' = FRest(f)
                    /\ InitReturn(AVERROR_INVALIDDATA, msg, lutsize)
                    /\ UNCHANGED <<lut, lutsize, cell, hist>>
               ELSE \/ /\ f' = FRest(f)
                       /\ lut' = LutPut(lut, vec, 3)
                       /\ lutsize' = ls
                       /\ hist' = HistWrite(hist, cell, 3)
                       /\ IF nc = << >>
                          THEN InitReturn(0, msg, ls) /\ UNCHANGED cell
                          ELSE cell' = nc /\ UNCHANGED <<ret, msg, pc>>
                    \/ /\ Addr(cell) >= LutCells
                       /\ pc' = "crashed"
                       /\ hist' = HistWrite(hist, cell, 3)
                       /\ UNCHANGED <<f, lut, lutsize, cell, ret, msg>>
(***************************************************************************)
(* The interpolation functions                                             *)
(***************************************************************************)
lerpf(v0, v1, fr) == FAdd(v0, FMul(FSub(v1, v0), fr))

lerp(v0, v1, fr) == Vec(lerpf(v0.r, v1.r, fr), lerpf(v0.g, v1.g, fr), lerpf(v0.b, v1.b, fr))

NEAR(x) == FNearInt(x)

PREV(x) == FTrunc(x)

NEXT(x) == FTrunc(x) + 1

\* The first argument of each function stands for the lut3d pointer: the grid
\* l, written with loop bound sz, and g, what a read outside the array yields.
interp_nearest(c, s) == LutRead(c.lut, c.sz, NEAR(s.r), NEAR(s.g), NEAR(s.b), c.g)

\* s - PREV(s) for the three members
Frac(s) == Vec(FSub(s.r, FInt(PREV(s.r))), FSub(s.g, FInt(PREV(s.g))),
               FSub(s.b, FInt(PREV(s.b))))

\* the corner c_xyz of the cube around s
Corner(c, s, x, y, z) ==
    LutRead(c.lut, c.sz, IF x = 1 THEN NEXT(s.r) ELSE PREV(s.r),
                         IF y = 1 THEN NEXT(s.g) ELSE PREV(s.g),
                         IF z = 1 THEN NEXT(s.b) ELSE PREV(s.b), c.g)

\* interp_trilinear for the offsets d = s - PREV(s)
Trilinear(c, s, d) ==
    LET c000 == Corner(c, s, 0, 0, 0)
        c001 == Corner(c, s, 0, 0, 1)
        c010 == Corner(c, s, 0, 1, 0)
        c011 == Corner(c, s, 0, 1, 1)
        c100 == Corner(c, s, 1, 0, 0)
        c101 == Corner(c, s, 1, 0, 1)
        c110 == Corner(c, s, 1, 1, 0)
        c111 == Corner(c, s, 1, 1, 1)
        c00  == lerp(c000, c100, d.r)
        c10  == lerp(c010, c110, d.r)
        c01  == lerp(c001, c101, d.r)
        c11  == lerp(c011, c111, d.r)
        c0   == lerp(c00, c10, d.g)
        c1   == lerp(c01, c11, d.g)
    IN  lerp(c0, c1, d.b)

interp_trilinear(c, s) == Trilinear(c, s, Frac(s))

\* w0 * p0 + w1 * p1 + w2 * p2 + w3 * p3, evaluated left to right
Sum4(w0, p0, w1, p1, w2, p2, w3, p3) ==
    FAdd(FAdd(FAdd(FMul(w0, p0), FMul(w1, p1)), FMul(w2, p2)), FMul(w3, p3))

\* one branch of interp_tetrahedral: the weights w and the corners p
Tetra(w, p) ==
    Vec(Sum4(w[1], p[1].r, w[2], p[2].r, w[3], p[3].r, w[4], p[4].r),
        Sum4(w[1], p[1].g, w[2], p[2].g, w[3], p[3].g, w[4], p[4].g),
        Sum4(w[1], p[1].b, w[2], p[2].b, w[3], p[3].b, w[4], p[4].b))

\* the branches of interp_tetrahedral with the outer comparison d.r > d.g
\* turned into d.g > d.r
TetraBranchReversed(d) ==
    IF FGt(d.g, d.r)
    THEN IF FGt(d.g, d.b) THEN 1 ELSE IF FGt(d.r, d.b) THEN 2 ELSE 3
    ELSE IF FGt(d.b, d.g) THEN 4 ELSE IF FGt(d.b, d.r) THEN 5 ELSE 6

\* the branch interp_tetrahedral takes for the offsets d, numbered 1 to 6 in
\* the order of the source
TetraBranch(d) ==
    IF FGt(d.r, d.g)
    THEN IF FGt(d.g, d.b) THEN 1 ELSE IF FGt(d.r, d.b) THEN 2 ELSE 3
    ELSE IF FGt(d.b, d.g) THEN 4 ELSE IF FGt(d.b, d.r) THEN 5 ELSE 6

\* the weights of the branch br of interp_tetrahedral, for d = s - PREV(s)
TetraWeights(d, br) ==
    CASE br = 1 -> <<FSub(FInt(1), d.r), FSub(d.r, d.g), FSub(d.g, d.b), d.b>>
      [] br = 2 -> <<FSub(FInt(1), d.r), FSub(d.r, d.b), FSub(d.b, d.g), d.g>>
      [] br = 3 -> <<FSub(FInt(1), d.b), FSub(d.b, d.r), FSub(d.r, d.g), d.g>>
      [] br = 4 -> <<FSub(FInt(1), d.b), FSub(d.b, d.g), FSub(d.g, d.r), d.r>>
      [] br = 5 -> <<FSub(FInt(1), d.g), FSub(d.g, d.b), FSub(d.b, d.r), d.r>>
      [] OTHER  -> <<FSub(FInt(1), d.g), FSub(d.g, d.r), FSub(d.r, d.b), d.b>>

\* the corners the branch br of interp_tetrahedral weighs: c000, two corners
\* of the branch, c111
TetraCorners(c, s, br) ==
    CASE br = 1 -> <<Corner(c, s, 0, 0, 0), Corner(c, s, 1, 0, 0), Corner(c, s, 1, 1, 0),
                     Corner(c, s, 1, 1, 1)>>
      [] br = 2 -> <<Corner(c, s, 0, 0, 0), Corner(c, s, 1, 0, 0), Corner(c, s, 1, 0, 1),
                     Corner(c, s, 1, 1, 1)>>
      [] br = 3 -> <<Corner(c, s, 0, 0, 0), Corner(c, s, 0, 0, 1), Corner(c, s, 1, 0, 1),
                     Corner(c, s, 1, 1, 1)>>
      [] br = 4 -> <<Corner(c, s, 0, 0, 0), Corner(c, s, 0, 0, 1), Corner(c, s, 0, 1, 1),
                     Corner(c, s, 1, 1, 1)>>
      [] br = 5 -> <<Corner(c, s, 0, 0, 0), Corner(c, s, 0, 1, 0), Corner(c, s, 0, 1, 1),
                     Corner(c, s, 1, 1, 1)>>
      [] OTHER  -> <<Corner(c, s, 0, 0, 0), Corner(c, s, 0, 1, 0), Corner(c, s, 1, 1, 0),
                     Corner(c, s, 1, 1, 1)>>

interp_tetrahedral(c, s) ==
    Tetra(TetraWeights(Frac(s), TetraBranch(Frac(s))), TetraCorners(c, s, TetraBranch(Frac(s))))

\* (1 << nbits) - 1
MaxVal(nbits) == 2^nbits - 1

\* scaled_rgb = {r * scale, g * scale, b * scale}
ScaleBy(scale, r, g, b) ==
    Vec(FMul(FInt(r), scale), FMul(FInt(g), scale), FMul(FInt(b), scale))

\* DEFINE_INTERP_FUNC: scaled_rgb for the samples r, g, b
Scaled(c, nbits, r, g, b) == ScaleBy(FDivInt(c.lutsize - 1, MaxVal(nbits)), r, g, b)

\* interp_##name(lut3d, &scaled_rgb)
InterpAt(c, name, s) ==
    IF name = "nearest" THEN interp_nearest(c, s)
    ELSE IF name = "trilinear" THEN interp_trilinear(c, s)
    ELSE interp_tetrahedral(c, s)

\* the call through lut3d->interp_8 or lut3d->interp_16 of the function fn
CallInterp(c, fn, r, g, b) == InterpAt(c, fn.name, Scaled(c, fn.nbits, r, g, b))

\* the cells lut[a][b][c] the function named name reads for the coordinate s,
\* br being the branch interp_tetrahedral takes
ReadsIn(name, s, br) ==
    LET P(x, y, z) == <<IF x = 1 THEN NEXT(s.r) ELSE PREV(s.r),
                        IF y = 1 THEN NEXT(s.g) ELSE PREV(s.g),
                        IF z = 1 THEN NEXT(s.b) ELSE PREV(s.b)>>
    IN  IF name = "nearest" THEN {<<NEAR(s.r), NEAR(s.g), NEAR(s.b)>>}
        ELSE IF name = "trilinear"
        THEN {P(x, y, z) : x \in {0, 1}, y \in {0, 1}, z \in {0, 1}}
        ELSE {P(0, 0, 0), P(1, 1, 1)} \cup
             (CASE br = 1 -> {P(1, 0, 0), P(1, 1, 0)}
                [] br = 2 -> {P(1, 0, 0), P(1, 0, 1)}
                [] br = 3 -> {P(0, 0, 1), P(1, 0, 1)}
                [] br = 4 -> {P(0, 0, 1), P(0, 1, 1)}
                [] br = 5 -> {P(0, 1, 0), P(0, 1, 1)}
                [] OTHER  -> {P(0, 1, 0), P(1, 1, 0)})

Reads(name, s) == ReadsIn(name, s, TetraBranch(Frac(s)))

\* lut[t[1]][t[2]][t[3]] lies outside the array lut[MAX_LEVEL][MAX_LEVEL][MAX_LEVEL]
OutOfArray(t) ==
    \/ \E n \in 1..3 : t[n] < 0 \/ t[n] > MAX_LEVEL
    \/ Addr(t) >= LutCells

(***************************************************************************)
(* Pixel formats and frames (libavutil and the filter framework)           *)
(***************************************************************************)
\* av_get_padded_bits_per_pixel, the formats config_input takes for 16 bit and
\* ff_fill_rgba_map's offsets of R, G, B, A
PixFmt(fmt) ==
    CASE fmt = "RGB24"  -> [bpp |-> 24, is16 |-> FALSE, map |-> <<0, 1, 2, 3>>]
      [] fmt = "BGR24"  -> [bpp |-> 24, is16 |-> FALSE, map |-> <<2, 1, 0, 3>>]
      [] fmt = "RGBA"   -> [bpp |-> 32, is16 |-> FALSE, map |-> <<0, 1, 2, 3>>]
      [] fmt = "BGRA"   -> [bpp |-> 32, is16 |-> FALSE, map |-> <<2, 1, 0, 3>>]
      [] fmt = "ARGB"   -> [bpp |-> 32, is16 |-> FALSE, map |-> <<1, 2, 3, 0>>]
      [] fmt = "ABGR"   -> [bpp |-> 32, is16 |-> FALSE, map |-> <<3, 2, 1, 0>>]
      [] fmt = "0RGB"   -> [bpp |-> 32, is16 |-> FALSE, map |-> <<1, 2, 3, 0>>]
      [] fmt = "0BGR"   -> [bpp |-> 32, is16 |-> FALSE, map |-> <<3, 2, 1, 0>>]
      [] fmt = "RGB0"   -> [bpp |-> 32, is16 |-> FALSE, map |-> <<0, 1, 2, 3>>]
      [] fmt = "BGR0"   -> [bpp |-> 32, is16 |-> FALSE, map |-> <<2, 1, 0, 3>>]
      [] fmt = "RGB48"  -> [bpp |-> 48, is16 |-> TRUE,  map |-> <<0, 1, 2, 3>>]
      [] fmt = "BGR48"  -> [bpp |-> 48, is16 |-> TRUE,  map |-> <<2, 1, 0, 3>>]
      [] fmt = "RGBA64" -> [bpp |-> 64, is16 |-> TRUE,  map |-> <<0, 1, 2, 3>>]
      [] fmt = "BGRA64" -> [bpp |-> 64, is16 |-> TRUE,  map |-> <<2, 1, 0, 3>>]

\* the formats of query_formats the model configures the link with
Formats == {"RGB24", "BGRA", "ARGB", "RGB48", "RGBA64"}

\* the components of a pixel and the bits of a sample, as the format has them
NComp(fmt) == IF PixFmt(fmt).is16 THEN PixFmt(fmt).bpp \div 16 ELSE PixFmt(fmt).bpp \div 8

Depth(fmt) == IF PixFmt(fmt).is16 THEN 16 ELSE 8

\* the row alignment of the frame buffers the framework allocates
LINE_ALIGN == 32

LineSize(fmt, w) ==
    ((w * (PixFmt(fmt).bpp \div 8) + LINE_ALIGN - 1) \div LINE_ALIGN) * LINE_ALIGN

\* Buffers are rows of bytes; sample n of a row read as uintN_t (little endian).
\* An access outside the row is undefined: a read yields 0, a write is lost.
Rd(buf, nbits, n) ==
    IF nbits = 8
    THEN IF n < Len(buf) THEN buf[n + 1] ELSE 0
    ELSE IF 2 * n + 1 < Len(buf) THEN buf[2 * n + 1] + 256 * buf[2 * n + 2] ELSE 0

Wr(buf, nbits, n, v) ==
    IF nbits = 8
    THEN IF n < Len(buf) THEN [buf EXCEPT ![n + 1] = v] ELSE buf
    ELSE IF 2 * n + 1 < Len(buf)
         THEN [buf EXCEPT ![2 * n + 1] = v % 256, ![2 * n + 2] = v \div 256]
         ELSE buf

\* the row of a frame of format fmt holding the pixels px (each <<R, G, B, A>>)
RECURSIVE PutPixels(_, _, _, _)
PutPixels(buf, fmt, px, p) ==
    IF p > Len(px) THEN buf
    ELSE LET n  == NComp(fmt)
             m  == PixFmt(fmt).map
             x  == (p - 1) * n
             b1 == Wr(buf, Depth(fmt), x + m[1], px[p][1])
             b2 == Wr(b1, Depth(fmt), x + m[2], px[p][2])
             b3 == Wr(b2, Depth(fmt), x + m[3], px[p][3])
             b4 == IF n = 4 THEN Wr(b3, Depth(fmt), x + m[4], px[p][4]) ELSE b3
         IN  PutPixels(b4, fmt, px, p + 1)

Row(fmt, px) == PutPixels([n \in 1..LineSize(fmt, Len(px)) |-> 0], fmt, px, 1)

\* sample c (1 = R .. 4 = A) of pixel p of a row of format fmt
Sample(buf, fmt, p, c) == Rd(buf, Depth(fmt), (p - 1) * NComp(fmt) + PixFmt(fmt).map[c])

(***************************************************************************)
(* config_input                                                            *)
(***************************************************************************)
MaxConfig == 2

InterpName(mode) ==
    IF mode = INTERPOLATE_NEAREST THEN "nearest"
    ELSE IF mode = INTERPOLATE_TRILINEAR THEN "trilinear"
    ELSE "tetrahedral"

Fn(nbits, name) == [nbits |-> nbits, name |-> name]

\* lut3d->is16bit after the first switch of config_input
Is16After(old, fmt) == IF PixFmt(fmt).is16 THEN 1 ELSE old

\* lut3d->step = av_get_padded_bits_per_pixel(desc) >> (3 + lut3d->is16bit)
StepOf(fmt, is16) == PixFmt(fmt).bpp \div 2^(3 + is16)

config_input ==
    /\ pc = "ready"
    /\ nconfig < MaxConfig
    /\ \E fmt \in Formats :
         LET is16 == Is16After(is16bit, fmt) IN
         /\ format' = fmt
         /\ is16bit' = is16
         /\ rgba_map' = PixFmt(fmt).map
         /\ step' = StepOf(fmt, is16)
         /\ interp_16' = IF is16 # 0 THEN Fn(16, InterpName(interpolation)) ELSE interp_16
         /\ interp_8' = IF is16 # 0 THEN interp_8 ELSE Fn(8, InterpName(interpolation))
    /\ nconfig' = nconfig + 1
    /\ UNCHANGED <<file, interpolation, pc, loadVars, nframes, frame>>
(***************************************************************************)
(* filter_frame                                                            *)
(***************************************************************************)
MaxFrames == 1

MaxWidth == 1

\* the pixels <<R, G, B, A>> of the frames given to the filter, by sample depth
Pixels(nbits) ==
    IF nbits = 8
    THEN { <<0, 0, 14, 200>>, <<255, 255, 255, 200>>, <<0, 255, 85, 3>> }
    ELSE { <<2, 27, 67, 40000>>, <<65535, 65535, 65535, 40000>>, <<0, 65535, 21845, 3>> }

\* what a fresh buffer of ff_get_video_buffer may hold in each byte
FillBytes == {0, 170}

\* av_clip_uintN of the int a float was converted to; u is what the undefined
\* conversion of a NaN or of an out-of-range float ends as
av_clip_uint(a, nbits, u) ==
    IF a = INT_MIN THEN u
    ELSE IF a < 0 THEN 0
    ELSE IF a > MaxVal(nbits) THEN MaxVal(nbits)
    ELSE a

\* the stores of one iteration of FILTER's inner loop at sample offset x: vec
\* is what the interpolation returned, a the alpha sample read from the source
StorePixel(dst, nbits, x, vec, a, direct, u) ==
    LET top == FInt(MaxVal(nbits))
        d1  == Wr(dst, nbits, x + rgba_map[1], av_clip_uint(FTrunc(FMul(vec.r, top)), nbits, u))
        d2  == Wr(d1, nbits, x + rgba_map[2], av_clip_uint(FTrunc(FMul(vec.g, top)), nbits, u))
        d3  == Wr(d2, nbits, x + rgba_map[3], av_clip_uint(FTrunc(FMul(vec.b, top)), nbits, u))
    IN  IF ~direct /\ step = 4 THEN Wr(d3, nbits, x + rgba_map[4], a) ELSE d3

\* what one iteration did: the samples read, their scaled coordinate, the
\* cells read for it and the value returned
PixelTrace(fn, r, g, b, s, vec) ==
    [smp |-> <<r, g, b>>, s |-> s, vec |-> vec, reads |-> Reads(fn.name, s)]

\* the effect of one iteration: the row written and the iteration's trace
PixelDone(fn, nbits, dst, x, direct, u, r, g, b, a, s, vec) ==
    [dst |-> StorePixel(dst, nbits, x, vec, a, direct, u),
     px  |-> PixelTrace(fn, r, g, b, s, vec)]

\* one iteration of FILTER's inner loop at sample offset x; src is the row
\* read, dst the row written (the same row when direct)
FilterPixel(c, fn, nbits, src, dst, x, direct, u) ==
    PixelDone(fn, nbits, dst, x, direct, u,
              Rd(src, nbits, x + rgba_map[1]), Rd(src, nbits, x + rgba_map[2]),
              Rd(src, nbits, x + rgba_map[3]), Rd(src, nbits, x + rgba_map[4]),
              Scaled(c, nbits, Rd(src, nbits, x + rgba_map[1]),
                     Rd(src, nbits, x + rgba_map[2]), Rd(src, nbits, x + rgba_map[3])),
              CallInterp(c, fn, Rd(src, nbits, x + rgba_map[1]),
                         Rd(src, nbits, x + rgba_map[2]), Rd(src, nbits, x + rgba_map[3])))

\* FILTER(nbits) over the one row of a frame of width w, from pixel p on;
\* FilterNext goes on after the iteration `one` of pixel p
RECURSIVE FilterRow(_, _, _, _, _, _, _, _, _, _)
RECURSIVE FilterNext(_, _, _, _, _, _, _, _, _, _)
FilterNext(c, fn, nbits, src, w, p, direct, u, trace, one) ==
    FilterRow(c, fn, nbits, src, one.dst, w, p + 1, direct, u, Append(trace, one.px))

FilterRow(c, fn, nbits, src, dst, w, p, direct, u, trace) ==
    IF p * step >= w * step THEN [dst |-> dst, trace |-> trace]
    ELSE FilterNext(c, fn, nbits, src, w, p, direct, u, trace,
                    FilterPixel(c, fn, nbits, IF direct THEN dst ELSE src, dst, p * step,
                                direct, u))

\* some iteration of the trace read a cell outside the array
TraceOOB(trace) == \E n \in 1..Len(trace) : \E t \in trace[n].reads : OutOfArray(t)

\* the record of a filter_frame call: the input row src, and res, the output
\* row and the trace of FILTER
FrameOf(src, w, direct, nbits, fn, res) ==
    [w |-> w, fmt |-> format, nbits |-> nbits, fn |-> fn, direct |-> direct,
     in0 |-> src, out |-> res.dst, trace |-> res.trace, oob |-> TraceOOB(res.trace),
     lut0 |-> lut, lutsize0 |-> lutsize]

\* filter_frame on the frame whose row holds src; fill is the byte a fresh
\* output buffer holds, g and u what the undefined reads and conversions yield
Filtered(src, w, direct, fill, g, u) ==
    FrameOf(src, w, direct, IF is16bit # 0 THEN 16 ELSE 8,
            IF is16bit # 0 THEN interp_16 ELSE interp_8,
            FilterRow([lut |-> lut, sz |-> size, g |-> g, lutsize |-> lutsize],
                      IF is16bit # 0 THEN interp_16 ELSE interp_8,
                      IF is16bit # 0 THEN 16 ELSE 8,
                      src, IF direct THEN src ELSE [n \in 1..Len(src) |-> fill],
                      w, 0, direct, u, << >>))

\* What the undefined behaviour of a frame may resolve to: <<g, u>>, the value
\* of a read outside the array and the result of converting a NaN to int.  A
\* grid of a size in [1, MAX_LEVEL - 1] is read at indices up to its size only,
\* all inside the array.
Undefined ==
    IF lutsize \in 1..(MAX_LEVEL - 1) THEN {<<FZero, 0>>}
    ELSE Garbage \X {0, MaxVal(IF is16bit # 0 THEN 16 ELSE 8)}

filter_frame ==
    /\ pc = "ready"
    /\ nconfig > 0
    /\ nframes < MaxFrames
    /\ \E w \in 1..MaxWidth, direct \in BOOLEAN :
       \E px \in [1..w -> Pixels(Depth(format))] :
       \E fill \in IF direct THEN {0} ELSE FillBytes :
       \E gu \in Undefined :
       \E src \in {Row(format, px)} :
       \E done \in {Filtered(src, w, direct, fill, gu[1], gu[2])} :
         \/ /\ frame' = done
            /\ pc' = pc
         \/ /\ done.oob
            /\ pc' = "crashed"
            /\ frame' = frame
    /\ nframes' = nframes + 1
    /\ UNCHANGED <<file, interpolation, loadVars, linkVars>>

(***************************************************************************)
(* The filter: init with its loader, then config_input and filter_frame    *)
(***************************************************************************)
Next ==
    \/ InitOpen
    \/ ParseDatLine
    \/ Parse3dlHeader
    \/ Parse3dlLine
    \/ ParseCubeScan
    \/ ParseCubeLine
    \/ ParseM3dScan
    \/ ParseM3dLine
    \/ config_input
    \/ filter_frame

Spec == Init /\ [][Next]_vars

(***************************************************************************)
(* interp_tetrahedral on its own: calls of the function on the identity    *)
(* grid, for coordinates whose offsets d = s - PREV(s) cover ties, zeros,  *)
(* offsets next to 1 and offsets that 1 - d has to round.                  *)
(***************************************************************************)
\* 0, 0.5, 3.25, the scaled 8-bit sample 1, the scaled 16-bit sample 2, and
\* 30 + (1 - 2^-19)
TetraCoords ==
    {FZero, F(8388608, -24), F(13631488, -22),
     FMul(FInt(1), FDivInt(IDENTITY_SIZE - 1, MaxVal(8))),
     FMul(FInt(2), FDivInt(IDENTITY_SIZE - 1, MaxVal(16))),
     F(16252927, -19)}

\* the record of one call: the coordinate s, the offsets d, the branch br
\* taken, its weights wt, the cells it weighs and the value returned
TetraRecord(s, d, br, wt, out) ==
    [w |-> 0, s |-> s, d |-> d, br |-> br, wt |-> wt,
     cells |-> ReadsIn("tetrahedral", s, br), out |-> out]

\* a call interp_tetrahedral(lut3d, &s)
TetraCall ==
    /\ pc = "ready"
    /\ frame = NoFrame
    /\ \E sr \in TetraCoords, sg \in TetraCoords, sb \in TetraCoords :
       \E s \in {Vec(sr, sg, sb)} :
       \E d \in {Frac(s)} :
       \E br \in {TetraBranch(d)} :
       \E wt \in {TetraWeights(d, br)} :
         frame' = TetraRecord(s, d, br, wt,
                              Tetra(wt, TetraCorners([lut |-> lut, sz |-> size, g |-> FZero,
                                                      lutsize |-> lutsize], s, br)))
    /\ UNCHANGED <<file, interpolation, pc, nframes, loadVars, linkVars>>

InitTetra == Init /\ file = NullFile /\ interpolation = INTERPOLATE_TETRAHEDRAL

NextTetra == InitOpen \/ TetraCall

SpecTetra == InitTetra /\ [][NextTetra]_vars
(***************************************************************************)
(* Vocabulary of the properties                                            *)
(***************************************************************************)
\* init has returned, or the process died
Returned == pc \in {"ready", "failed", "crashed"}

\* the positions of the loaders inside the loops that read one cell per line
CellLoops == {"parse_dat", "parse_3dl", "parse_cube", "parse_m3d"}

\* a line that carries a colour triple
IsTriple(line) == line.t = "nums" /\ Len(line.toks) >= 3

\* the number of lines of the runs s that carry a colour triple
RECURSIVE NTriples(_)
NTriples(s) ==
    IF s = << >> THEN 0
    ELSE (IF IsTriple(s[1].line) THEN s[1].n ELSE 0) + NTriples(Tail(s))

\* the lines of the file fl of the kinds ts
LinesOf(fl, ts) == {n \in 1..Len(fl.lines) : fl.lines[n].line.t \in ts}

\* a .cube file whose every line is one the format defines, with a
\* LUT_3D_SIZE in [1,36] and at least size^3 colour triples after it
WellFormedCube(fl) ==
    /\ ~fl.null /\ fl.exists /\ fl.ext = "cube"
    /\ \A n \in 1..Len(fl.lines) :
         LET line == fl.lines[n].line
         IN  \/ line.t \in {"blank", "comment", "LUT_3D_SIZE"}
             \/ line.t \in {"DOMAIN_MIN", "DOMAIN_MAX"} /\ Len(line.toks) = 3
             \/ IsTriple(line)
    /\ \E n \in LinesOf(fl, {"LUT_3D_SIZE"}) :
         /\ LinesOf(fl, {"LUT_3D_SIZE"}) = {n}
         /\ fl.lines[n].line.n \in 1..MAX_LEVEL
         /\ LinesOf(fl, {"nums"}) \subseteq (n + 1)..Len(fl.lines)
         /\ NTriples(fl.lines) >= Cube(fl.lines[n].line.n)

\* DOMAIN_MIN or DOMAIN_MAX lines follow the LUT_3D_SIZE line of fl
DomainAfterSize(fl) ==
    \E n \in LinesOf(fl, {"LUT_3D_SIZE"}), d \in LinesOf(fl, {"DOMAIN_MIN", "DOMAIN_MAX"}) :
        n < d

\* an .m3d file with `in` and `out` lines, then only colour triples, at least
\* size^3 of them, and a size the array holds
WellFormedM3dNoValues(fl) ==
    /\ ~fl.null /\ fl.exists /\ fl.ext = "m3d"
    /\ LinesOf(fl, {"values"}) = {}
    /\ \E n \in LinesOf(fl, {"in"}), o \in LinesOf(fl, {"out"}) :
         /\ M3dSize(fl.lines[n].line.n) \in 1..MAX_LEVEL
         /\ \A d \in 1..Len(fl.lines) :
              d > n /\ d > o => IsTriple(fl.lines[d].line)
         /\ NTriples(fl.lines) >= Cube(M3dSize(fl.lines[n].line.n))

M3dMissingInOut(fl) ==
    /\ ~fl.null /\ fl.exists /\ fl.ext = "m3d"
    /\ LinesOf(fl, {"in"}) = {} \/ LinesOf(fl, {"out"}) = {}

\* an .m3d file whose `values` line names a channel other than r, g, b
M3dBadValues(fl) ==
    /\ ~fl.null /\ fl.exists /\ fl.ext = "m3d"
    /\ \E n \in LinesOf(fl, {"values"}) :
         \E id \in 1..Len(fl.lines[n].line.cs) :
             fl.lines[n].line.cs[id] \notin {"r", "g", "b"}

\* a frame has been filtered, by the function config_input set for its format
Filtered1 == frame.w > 0

ProperFrame == Filtered1 /\ frame.nbits = Depth(frame.fmt)

\* sample c of pixel p of the frame's input and output rows, read at the
\* frame's format
InSample(p, c) == Sample(frame.in0, frame.fmt, p, c)

OutSample(p, c) == Sample(frame.out, frame.fmt, p, c)
(***************************************************************************)
(* Properties                                                              *)
(***************************************************************************)
\* C1: whenever init has returned success the axis size lutsize is in [1,36];
\* a file that declares or derives a larger size (LUT_3D_SIZE > 36, `in` >
\* 36^3) does not load; and no loader ever writes a cell with an index
\* outside [0,35].
C1_SizeWithinMaxLevel ==
    /\ pc = "ready" => lutsize \in 1..MAX_LEVEL
    /\ size > MAX_LEVEL => pc \in {"failed"}
    /\ hist.maxW <= MAX_LEVEL - 1

\* C2: in every frame filtered with trilinear or tetrahedral interpolation
\* through a grid of size in [1,36], for every sample value the floor index
\* of each scaled coordinate is at most size-2 when size >= 2, every cell
\* read has its three indices in [0, size-1], and with size 1 only the cell
\* (0,0,0) is read.
C2_ReadsInsideGrid ==
    (ProperFrame /\ frame.lutsize0 \in 1..MAX_LEVEL /\ frame.fn.name # "nearest") =>
        \A n \in 1..Len(frame.trace) :
            LET px == frame.trace[n] IN
            /\ frame.lutsize0 >= 2 =>
                 \A x \in {px.s.r, px.s.g, px.s.b} : PREV(x) <= frame.lutsize0 - 2
            /\ \A t \in px.reads : \A i \in 1..3 : t[i] \in 0..(frame.lutsize0 - 1)

\* C3: a well-formed .cube file with DOMAIN_MIN / DOMAIN_MAX lines after its
\* LUT_3D_SIZE line loads successfully: once init has returned it has
\* succeeded, the directive lines took no cell (size^3 cells were written),
\* and every cell holds a colour triple of the file multiplied per channel by
\* max - min.
C3_DomainAfterSizeLoads ==
    (WellFormedCube(file) /\ DomainAfterSize(file) /\ Returned) =>
        /\ pc = "ready"
        /\ LutLen(lut) = Cube(lutsize)
        /\ \A n \in 1..Len(lut) :
             \E d \in LinesOf(file, {"nums"}) :
                 LET toks == file.lines[d].line.toks
                 IN  lut[n].v = Vec(FMul(toks[1].f, FSub(vmax[1], vmin[1])),
                                    FMul(toks[2].f, FSub(vmax[2], vmin[2])),
                                    FMul(toks[3].f, FSub(vmax[3], vmin[3])))

\* C4: an .m3d file with `in` and `out`, no `values` line and size^3
\* well-formed data lines loads successfully with the channel order r, g, b;
\* an .m3d file without `in` or without `out` does not load.
C4_ValuesOptional ==
    /\ (WellFormedM3dNoValues(file) /\ Returned) =>
           (pc = "ready" /\ rgb_map = <<0, 1, 2>>)
    /\ (M3dMissingInOut(file) /\ Returned) => pc = "failed"

\* C5: in every format a data line that is neither skippable nor a directive
\* and does not hold three numbers fails the load with
\* AVERROR_INVALIDDATA: the loader never moves past a cell on fewer than
\* three numbers stored, and an .m3d file whose `values` line names a channel
\* other than r, g, b does not load.
C5_MalformedLineFails ==
    /\ \A n \in 1..Len(lut) : lut[n].t = "const" => lut[n].asg = 3
    /\ (M3dBadValues(file) /\ Returned) => (pc = "failed" /\ ret = AVERROR_INVALIDDATA)
Near1(a, b) == a = b \/ (a.e = b.e /\ Abs(a.m - b.m) <= 1)

\* the coordinate x is an integer in [0, sz - 1]
OnGrid(x, sz) == ~x.nan /\ FInt(FTrunc(x)) = x /\ FTrunc(x) \in 0..(sz - 1)

\* C7: with no file, init builds a grid of size 32 whose cell [k][j][i] holds
\* (k/31, j/31, i/31), and a frame filtered through it with trilinear or
\* tetrahedral interpolation has every R, G, B sample of its output equal to
\* the input sample; with nearest interpolation so has every pixel whose
\* scaled coordinates are integers.
C7_IdentityGridIsExact ==
    (file.null /\ pc = "ready") =>
        /\ lutsize = IDENTITY_SIZE
        /\ \A k \in 0..(IDENTITY_SIZE - 1) :
             LET v == LutRead(lut, size, k, IDENTITY_SIZE - 1 - k, 0, FZero)
             IN  /\ Near1(v.r, FDivInt(k, IDENTITY_SIZE - 1))
                 /\ Near1(v.g, FDivInt(IDENTITY_SIZE - 1 - k, IDENTITY_SIZE - 1))
                 /\ v.b = FZero
        /\ ProperFrame =>
             \A p \in 1..frame.w :
                 (\/ frame.fn.name \in {"trilinear", "tetrahedral"}
                  \/ LET s == frame.trace[p].s
                     IN  OnGrid(s.r, lutsize) /\ OnGrid(s.g, lutsize) /\ OnGrid(s.b, lutsize))
                 => \A c \in 1..3 : OutSample(p, c) = InSample(p, c)

\* C8: for every grid of size in [1,36] and every pixel whose three scaled
\* coordinates are integers in [0, size-1], nearest, trilinear and
\* tetrahedral interpolation return exactly the cell stored at that vertex.
C8_VertexIsExact ==
    (ProperFrame /\ frame.lutsize0 \in 1..MAX_LEVEL) =>
        \A n \in 1..Len(frame.trace) :
            LET px == frame.trace[n]
                sz == frame.lutsize0
            IN  (OnGrid(px.s.r, sz) /\ OnGrid(px.s.g, sz) /\ OnGrid(px.s.b, sz)) =>
                    px.vec = LutRead(frame.lut0, size, FTrunc(px.s.r), FTrunc(px.s.g),
                                     FTrunc(px.s.b), FZero)

\* C9: after filter_frame on a frame of a 4-component format, in place or
\* into a fresh buffer, every pixel's alpha sample of the output equals the
\* input's, and its R, G, B samples are the clipped interpolation results.
C9_AlphaPreserved ==
    (Filtered1 /\ NComp(frame.fmt) = 4) =>
        \A p \in 1..frame.w :
            /\ OutSample(p, 4) = InSample(p, 4)
            /\ LET vec == frame.trace[p].vec
                   top == FInt(MaxVal(Depth(frame.fmt)))
                   Clipped(x) == {av_clip_uint(FTrunc(FMul(x, top)), Depth(frame.fmt), u) :
                                      u \in {0, MaxVal(Depth(frame.fmt))}}
               IN  /\ OutSample(p, 1) \in Clipped(vec.r)
                   /\ OutSample(p, 2) \in Clipped(vec.g)
                   /\ OutSample(p, 3) \in Clipped(vec.b)

\* C10: when init has returned success every cell with indices in
\* [0, size-1] has been written exactly once by the loader, and from then on
\* no step (config_input, filter_frame) changes a cell or the axis size.
C10_GridWrittenOnceThenReadOnly ==
    /\ [](pc = "ready" =>
            /\ size <= MAX_LEVEL
            /\ LutLen(lut) = Cube(Max(size, 0))
            /\ \A n \in 1..Len(lut) : lut[n].t = "const" => lut[n].asg = 3)
    /\ [][pc = "ready" => (lut' = lut /\ lutsize' = lutsize)]_vars

\* a call of interp_tetrahedral has been recorded
TetraCalled == "br" \in DOMAIN frame

\* the eight corners of the cube around s, as index triples
Corners8(s) ==
    {<<a, b, c>> : a \in {PREV(s.r), NEXT(s.r)}, b \in {PREV(s.g), NEXT(s.g)},
                   c \in {PREV(s.b), NEXT(s.b)}}

\* The weight w, between 0 and 1, in units of 2^-48 as <<h, l>> of value
\* h * 2^24 + l with l < 2^24; bits below 2^-48 are dropped
WeightUnits(w) ==
    IF w.m = 0 THEN <<0, 0>>
    ELSE IF w.e >= -24 THEN <<w.m * 2^(w.e + 24), 0>>
    ELSE IF w.e >= -48 THEN <<w.m \div 2^(-24 - w.e), (w.m % 2^(-24 - w.e)) * 2^(w.e + 48)>>
    ELSE IF w.e >= -72 THEN <<0, w.m \div 2^(-48 - w.e)>>
    ELSE <<0, 0>>

\* h * 2^24 + l brought to l < 2^24
Carry(h, l) == <<h + l \div 16777216, l % 16777216>>

\* the exact sum of the four weights wt, in units of 2^-48
SumUnits(wt) ==
    Carry(WeightUnits(wt[1])[1] + WeightUnits(wt[2])[1] + WeightUnits(wt[3])[1]
            + WeightUnits(wt[4])[1],
          WeightUnits(wt[1])[2] + WeightUnits(wt[2])[2] + WeightUnits(wt[3])[2]
            + WeightUnits(wt[4])[2])

\* the call took one of the six branches and weighed four of the eight
\* corners, c000 and c111 among them, with weights that are not negative
TetraShape ==
    /\ frame.br \in 1..6
    /\ frame.cells \subseteq Corners8(frame.s)
    /\ Cardinality(frame.cells) = 4
    /\ <<PREV(frame.s.r), PREV(frame.s.g), PREV(frame.s.b)>> \in frame.cells
    /\ <<NEXT(frame.s.r), NEXT(frame.s.g), NEXT(frame.s.b)>> \in frame.cells
    /\ \A n \in 1..4 : ~frame.wt[n].nan /\ frame.wt[n].m >= 0

\* C11 as stated: for all offsets in [0,1)^3, ties included, interp_tetrahedral
\* takes exactly one of its six branches, and there the result is a weighted
\* sum of exactly 4 of the 8 corners, c000 and c111 among them, whose weights
\* are not negative and sum to 1.
C11_TetraWeightsSumToOne ==
    TetraCalled => TetraShape /\ SumUnits(frame.wt) = <<16777216, 0>>

\* C11: for all offsets in [0,1)^3, ties included, interp_tetrahedral takes
\* exactly one of its six branches, and there the result is a weighted sum of
\* exactly 4 of the 8 corners, c000 and c111 among them, whose weights are not
\* negative and whose sum differs from 1 by less than 2^-23, the rounding of
\* the three binary32 subtractions that form them.
C11_TetraWeightsRounded ==
    TetraCalled =>
        /\ TetraShape
        /\ \E t \in {SumUnits(frame.wt)} :
             /\ t[1] > 16777214 \/ (t[1] = 16777214 /\ t[2] > 0)
             /\ t[1] < 16777218

\* a call with a tie between two offsets that are not 0, whose weights do not
\* sum to 1 exactly
C11_Witness ==
    /\ TetraCalled
    /\ frame.d.r = frame.d.g
    /\ frame.d.r.m > 0
    /\ frame.d.b.m > 0
    /\ frame.d.b # frame.d.r
    /\ SumUnits(frame.wt) # <<16777216, 0>>

\* C12: after any sequence of config_input calls the 16-bit flag tells whether
\* the format configured last is a 16-bit format, step is that format's number
\* of samples per pixel, and the function filter_frame calls (interp_16 when
\* the flag is set, interp_8 otherwise) is set and is the variant of the
\* configured interpolation mode for that depth.
C12_ConfigFollowsLastFormat ==
    nconfig > 0 =>
        /\ (is16bit # 0) = PixFmt(format).is16
        /\ step = NComp(format)
        /\ (IF is16bit # 0 THEN interp_16 ELSE interp_8).name # "NULL"
        /\ (IF is16bit # 0 THEN interp_16 ELSE interp_8)
             = Fn(IF is16bit # 0 THEN 16 ELSE 8, InterpName(interpolation))
====
